---- MODULE Spec2Model ----
(***************************************************************************)
(* SAMD21 GPIO driver (src/samd21/gpio.c) as a state machine.              *)
(*                                                                         *)
(* The state is the PORT register block (two port groups, each with the   *)
(* OUT, DIR and IN words (IN is INREG here), 32 PINCFG bytes and 16 PMUX bytes), the CPU's    *)
(* interrupt-enable state, and the call in progress in the main loop.     *)
(* A call is the sequence of register accesses the function performs, in  *)
(* program order; the main loop executes one access per step and          *)
(* interrupt handlers may run between any two steps while interrupts are  *)
(* enabled.                                                                *)
(*                                                                         *)
(* Encoding: a 32-bit word is the set of the positions of its 1 bits       *)
(* (a subset of 0..31); a byte is a number in 0..255.                      *)
(***************************************************************************)
EXTENDS Integers, Sequences, FiniteSets, TLC

VARIABLES OUT, DIR, INREG, PINCFG, PMUX, irq, cur, pend, flag, ret,
          handles, shut, undef, lvl

vars == <<OUT, DIR, INREG, PINCFG, PMUX, irq, cur, pend, flag, ret,
          handles, shut, undef, lvl>>

(***************************************************************************)
(* Program constants                                                       *)
(***************************************************************************)
NUM_PORT == 2
\* PINCFG bits (device header): PMUXEN is bit 0, PULLEN is bit 2
PORT_PINCFG_PMUXEN == 1
PORT_PINCFG_PULLEN == 4
\* pins per port group, PMUX bytes per group (two pins a byte)
NumBits == 32
NumPmux == 16
\* a uint8_t holds values modulo 256
ByteMod == 256
\* the character 'A'
CharA == 65

(***************************************************************************)
(* Bounds of the model: the argument values the operations are called with *)
(***************************************************************************)
MaxVal == 2
MaxPull == 1

Groups == 0 .. (NUM_PORT - 1)
BitIdx == 0 .. (NumBits - 1)
Vals == 0 .. MaxVal
PullUps == -1 .. MaxPull
\* Pins the model follows: 30 and 31 are the two pins of group 0 that share
\* PMUX[15] (31 is the top bit of the word), 63 is the top pin of group 1.
GoodPins == {30, 31, 63}
\* pin numbers beyond the last port
BadPins == {64, 255}
\* pins handed to gpio_out_setup and to gpio_in_setup
OutPins == {30, 31} \cup BadPins
InPins == {31, 63} \cup BadPins
\* arguments of gpio_peripheral: bank, bit (32 is beyond the arrays), ptype
Banks == {CharA, CharA + 1, CharA + 2}
PeriphArgs == (Banks \X {31}) \cup ({CharA} \X {30, 32})
PTypes == {0, CharA + 1, CharA + 7}
PeriphPulls == {0, 1}

(***************************************************************************)
(* Word and byte arithmetic                                                *)
(***************************************************************************)
RECURSIVE Pow2(_)
Pow2(n) ==
    IF n = 0 THEN 1 ELSE 2 * Pow2(n - 1)

BitOf(v, i) ==
    (v \div Pow2(i)) % 2

\* bitwise and / or of two bytes
ByteAnd(a, b) ==
    LET S == {i \in 0 .. 7 : BitOf(a, i) = 1 /\ BitOf(b, i) = 1}
        RECURSIVE Sum(_)
        Sum(T) == IF T = {} THEN 0
                  ELSE LET i == CHOOSE x \in T : TRUE IN Pow2(i) + Sum(T \ {i})
    IN  Sum(S)

ByteOr(a, b) ==
    LET S == {i \in 0 .. 7 : BitOf(a, i) = 1 \/ BitOf(b, i) = 1}
        RECURSIVE Sum(_)
        Sum(T) == IF T = {} THEN 0
                  ELSE LET i == CHOOSE x \in T : TRUE IN Pow2(i) + Sum(T \ {i})
    IN  Sum(S)

\* ffs(): one plus the index of the least significant 1 bit, 0 for no bit
ffs(w) ==
    IF w = {} THEN 0
    ELSE 1 + (CHOOSE i \in w : \A j \in w : i <= j)

(***************************************************************************)
(* Pin numbering                                                           *)
(***************************************************************************)
GPIO2PORT(pin) ==
    pin \div 32

\* 1 << (pin % 32), stored in the handle's 32-bit bit field.  For
\* pin % 32 = 31 the shift is of a signed 1 into the sign bit; the compiler
\* the firmware is built with (GCC) defines the result as bit 31 alone.
GPIO2BIT(pin) ==
    {pin % 32}

Handle(kind, pin) ==
    [kind |-> kind, regs |-> GPIO2PORT(pin), bit |-> GPIO2BIT(pin)]

(***************************************************************************)
(* Register accesses, in the order the code performs them                  *)
(***************************************************************************)
Ins(k, grp, reg, idx, val, bits) ==
    [k |-> k, grp |-> grp, reg |-> reg, idx |-> idx, val |-> val, bits |-> bits]

IrqSave == Ins("irq_save", 0, "", 0, 0, {})
IrqRestore == Ins("irq_restore", 0, "", 0, 0, {})
Wr(grp, reg, bits) == Ins("wr", grp, reg, 0, 0, bits)
Cfg(grp, idx, val) == Ins("cfg", grp, "PINCFG", idx, val, {})
Mux(grp, idx, val) == Ins("mux", grp, "PMUX", idx, val, {})
RdIn(grp, bits) == Ins("rd", grp, "IN", 0, 0, bits)
Ret(kind, grp, bits) == Ins("ret", grp, kind, 0, 0, bits)
Shutdown(msg) == Ins("shutdown", 0, msg, 0, 0, {})

\* gpio_peripheral with the nibbles of the PMUX byte swapped
gpio_peripheral_swapped(bank, bit, ptype, pull_up) ==
    LET group == IF bank = CharA THEN 0 ELSE 1
        shift == IF bit % 2 = 1 THEN 0 ELSE 4
        mask  == IF shift = 4 THEN 15 ELSE 240
        idx   == bit \div 2
        old   == IF idx \in 0 .. (NumPmux - 1) THEN PMUX[group][idx] ELSE 0
        new   == ByteOr(ByteAnd(old, mask),
                        ((ptype - CharA) * Pow2(shift)) % ByteMod)
        cfg   == (IF ptype # 0 THEN PORT_PINCFG_PMUXEN ELSE 0)
                 + (IF pull_up # 0 THEN PORT_PINCFG_PULLEN ELSE 0)
    IN  (IF ptype # 0 THEN <<Mux(group, idx, new)>> ELSE <<>>)
        \o <<Cfg(group, bit, cfg)>>

gpio_peripheral(bank, bit, ptype, pull_up) ==
    LET group == IF bank = CharA THEN 0 ELSE 1
        shift == IF bit % 2 = 1 THEN 4 ELSE 0
        mask  == IF shift = 4 THEN 15 ELSE 240
        idx   == bit \div 2
        old   == IF idx \in 0 .. (NumPmux - 1) THEN PMUX[group][idx] ELSE 0
        new   == ByteOr(ByteAnd(old, mask),
                        ((ptype - CharA) * Pow2(shift)) % ByteMod)
        cfg   == (IF ptype # 0 THEN PORT_PINCFG_PMUXEN ELSE 0)
                 + (IF pull_up # 0 THEN PORT_PINCFG_PULLEN ELSE 0)
    IN  (IF ptype # 0 THEN <<Mux(group, idx, new)>> ELSE <<>>)
        \o <<Cfg(group, bit, cfg)>>

set_pincfg(pg, bit, cfg) ==
    Cfg(pg, ffs(bit) - 1, cfg)

\* gpio_out_reset making the pin an output before writing its latch
gpio_out_reset_dir_first(g, val) ==
    << IrqSave,
       Wr(g.regs, "DIRSET", g.bit),
       IF val # 0 THEN Wr(g.regs, "OUTSET", g.bit) ELSE Wr(g.regs, "OUTCLR", g.bit),
       set_pincfg(g.regs, g.bit, 0),
       IrqRestore >>

\* gpio_out_reset disabling interrupts only after its first register write
gpio_out_reset_late_save(g, val) ==
    << IF val # 0 THEN Wr(g.regs, "OUTSET", g.bit) ELSE Wr(g.regs, "OUTCLR", g.bit),
       IrqSave,
       Wr(g.regs, "DIRSET", g.bit),
       set_pincfg(g.regs, g.bit, 0),
       IrqRestore >>

\* gpio_out_reset assigning the OUT word instead of using OUTSET
gpio_out_reset_assign(g, val) ==
    << IrqSave,
       IF val # 0 THEN Wr(g.regs, "OUT", g.bit) ELSE Wr(g.regs, "OUTCLR", g.bit),
       Wr(g.regs, "DIRSET", g.bit),
       set_pincfg(g.regs, g.bit, 0),
       IrqRestore >>

gpio_out_reset(g, val) ==
    << IrqSave,
       IF val # 0 THEN Wr(g.regs, "OUTSET", g.bit) ELSE Wr(g.regs, "OUTCLR", g.bit),
       Wr(g.regs, "DIRSET", g.bit),
       set_pincfg(g.regs, g.bit, 0),
       IrqRestore >>

\* gpio_out_setup with the port check off by one
gpio_out_setup_off_by_one(pin, val) ==
    IF GPIO2PORT(pin) > NUM_PORT
    THEN <<Shutdown("Not an output pin")>>
    ELSE LET g == Handle("out", pin)
         IN  gpio_out_reset(g, val) \o <<Ret("out", g.regs, g.bit)>>

gpio_out_setup(pin, val) ==
    IF GPIO2PORT(pin) >= NUM_PORT
    THEN <<Shutdown("Not an output pin")>>
    ELSE LET g == Handle("out", pin)
         IN  gpio_out_reset(g, val) \o <<Ret("out", g.regs, g.bit)>>

gpio_out_toggle_noirq(g) ==
    << Wr(g.regs, "OUTTGL", g.bit) >>

gpio_out_toggle(g) ==
    gpio_out_toggle_noirq(g)

\* gpio_out_write as a read-modify-write of the OUT word
gpio_out_write_rmw(g, val) ==
    << Wr(g.regs, "OUT", IF val # 0 THEN OUT[g.regs] \cup g.bit ELSE OUT[g.regs] \ g.bit) >>

\* gpio_out_write testing only the low bit of val
gpio_out_write_low_bit(g, val) ==
    << IF val % 2 = 1 THEN Wr(g.regs, "OUTSET", g.bit) ELSE Wr(g.regs, "OUTCLR", g.bit) >>

gpio_out_write(g, val) ==
    << IF val # 0 THEN Wr(g.regs, "OUTSET", g.bit) ELSE Wr(g.regs, "OUTCLR", g.bit) >>

\* gpio_in_reset enabling the pull for any nonzero pull_up
gpio_in_reset_nonzero(g, pull_up) ==
    << IrqSave,
       set_pincfg(g.regs, g.bit, IF pull_up # 0 THEN PORT_PINCFG_PULLEN ELSE 0),
       Wr(g.regs, "DIRCLR", g.bit),
       IrqRestore >>

\* gpio_in_reset returning without irq_restore
gpio_in_reset_no_restore(g, pull_up) ==
    << IrqSave,
       set_pincfg(g.regs, g.bit, IF pull_up > 0 THEN PORT_PINCFG_PULLEN ELSE 0),
       Wr(g.regs, "DIRCLR", g.bit) >>

gpio_in_reset(g, pull_up) ==
    << IrqSave,
       set_pincfg(g.regs, g.bit, IF pull_up > 0 THEN PORT_PINCFG_PULLEN ELSE 0),
       Wr(g.regs, "DIRCLR", g.bit),
       IrqRestore >>

gpio_in_setup(pin, pull_up) ==
    IF GPIO2PORT(pin) >= NUM_PORT
    THEN <<Shutdown("Not an input pin")>>
    ELSE LET g == Handle("in", pin)
         IN  gpio_in_reset(g, pull_up) \o <<Ret("in", g.regs, g.bit)>>

gpio_in_read(g) ==
    << RdIn(g.regs, g.bit) >>

(***************************************************************************)
(* Effect of one register access                                           *)
(***************************************************************************)
\* the write-one-to-act registers of a port group (SAMD21 PORT)
StoreOUT(reg, old, bits) ==
    CASE reg = "OUTSET" -> old \cup bits
      [] reg = "OUTCLR" -> old \ bits
      [] reg = "OUTTGL" -> (old \ bits) \cup (bits \ old)
      [] reg = "OUT"    -> bits
      [] OTHER          -> old

StoreDIR(reg, old, bits) ==
    CASE reg = "DIRSET" -> old \cup bits
      [] reg = "DIRCLR" -> old \ bits
      [] OTHER          -> old

PinsOf(grp, bits) ==
    {grp * NumBits + b : b \in bits}

IsLatchReg(reg) ==
    reg \in {"OUT", "OUTSET", "OUTCLR", "OUTTGL"}

\* the level the pin is asked to drive, per call: -1 is "not driven by an
\* output call since it was last made an input"
NextLvl(op, val, old) ==
    CASE op \in {"gpio_out_setup", "gpio_out_reset"} -> IF val # 0 THEN 1 ELSE 0
      [] op = "gpio_out_write" -> IF old = -1 THEN -1 ELSE IF val # 0 THEN 1 ELSE 0
      [] op \in {"gpio_out_toggle", "gpio_out_toggle_noirq"} ->
             IF old = -1 THEN -1 ELSE 1 - old
      [] OTHER -> old

LvlAfter(c, i) ==
    [p \in DOMAIN lvl |->
        IF p \notin PinsOf(c.grp, c.bits) THEN lvl[p]
        ELSE IF i.k = "wr" /\ IsLatchReg(i.reg) THEN NextLvl(c.op, c.val, lvl[p])
        ELSE IF i.k = "wr" /\ i.reg = "DIRCLR" THEN -1
        ELSE lvl[p]]

InRange(i) ==
    /\ i.grp \in Groups
    /\ i.k = "cfg" => i.idx \in BitIdx
    /\ i.k = "mux" => i.idx \in 0 .. (NumPmux - 1)

\* irq_save(): return the interrupt-enable state and disable interrupts
irq_save ==
    /\ flag' = irq
    /\ irq' = FALSE

\* irq_restore(flag): put the saved interrupt-enable state back
irq_restore ==
    /\ irq' = flag
    /\ flag' = FALSE

\* the value a call returned: nothing, a number, or a pin handle
NoRet == [t |-> "none", v |-> 0]
IntRet(n) == [t |-> "int", v |-> n]
HandleRet(g) == [t |-> "handle", v |-> g]

NoCall ==
    [op |-> "none", bank |-> 0, pin |-> -1, grp |-> 0, bits |-> {}, val |-> 0,
     pull |-> 0, irq0 |-> TRUE, pre |-> FALSE]

Init ==
    /\ OUT = [g \in Groups |-> {}]
    /\ DIR = [g \in Groups |-> {}]
    /\ INREG = [g \in Groups |-> {}]
    /\ PINCFG = [g \in Groups |-> [b \in BitIdx |-> 0]]
    /\ PMUX = [g \in Groups |-> [b \in 0 .. (NumPmux - 1) |-> 0]]
    /\ irq = TRUE
    /\ cur = NoCall
    /\ pend = <<>>
    /\ flag = FALSE
    /\ ret = NoRet
    /\ handles = {}
    /\ shut = ""
    /\ undef = FALSE
    /\ lvl = [p \in GoodPins |-> -1]

Running ==
    shut = "" /\ ~undef

Idle ==
    Running /\ pend = <<>>

\* The main loop enters a function: its register accesses become pending.
\* cur records the call as the caller made it: the function, its arguments
\* and the pin (group, bit) it is about, and the interrupt state on entry.
Enter(c, code) ==
    /\ Idle
    /\ cur' = [c EXCEPT !.irq0 = irq, !.pre = FALSE]
    /\ pend' = code
    /\ ret' = NoRet
    /\ UNCHANGED <<OUT, DIR, INREG, PINCFG, PMUX, irq, flag, handles, shut, undef, lvl>>

OnPin(op, pin, val, pull) ==
    [NoCall EXCEPT !.op = op, !.pin = pin, !.grp = pin \div NumBits,
                   !.bits = {pin % NumBits}, !.val = val, !.pull = pull]

OnHandle(op, g, val, pull) ==
    [NoCall EXCEPT !.op = op, !.grp = g.regs, !.bits = g.bit, !.val = val, !.pull = pull]

Call_gpio_out_setup(pin, val) ==
    Enter(OnPin("gpio_out_setup", pin, val, 0), gpio_out_setup(pin, val))

Call_gpio_in_setup(pin, pull_up) ==
    Enter(OnPin("gpio_in_setup", pin, 0, pull_up), gpio_in_setup(pin, pull_up))

Call_gpio_out_reset(g, val) ==
    /\ g.kind = "out"
    /\ Enter(OnHandle("gpio_out_reset", g, val, 0), gpio_out_reset(g, val))

Call_gpio_out_write(g, val) ==
    /\ g.kind = "out"
    /\ Enter(OnHandle("gpio_out_write", g, val, 0), gpio_out_write(g, val))

Call_gpio_out_toggle(g) ==
    /\ g.kind = "out"
    /\ Enter(OnHandle("gpio_out_toggle", g, 0, 0), gpio_out_toggle(g))

Call_gpio_out_toggle_noirq(g) ==
    /\ g.kind = "out"
    /\ Enter(OnHandle("gpio_out_toggle_noirq", g, 0, 0), gpio_out_toggle_noirq(g))

Call_gpio_in_reset(g, pull_up) ==
    /\ g.kind = "in"
    /\ Enter(OnHandle("gpio_in_reset", g, 0, pull_up), gpio_in_reset(g, pull_up))

Call_gpio_in_read(g) ==
    /\ g.kind = "in"
    /\ Enter(OnHandle("gpio_in_read", g, 0, 0), gpio_in_read(g))

Call_gpio_peripheral(bank, bit, ptype, pull_up) ==
    Enter([NoCall EXCEPT !.op = "gpio_peripheral", !.bank = bank, !.pin = bit,
                         !.val = ptype, !.pull = pull_up],
          gpio_peripheral(bank, bit, ptype, pull_up))

\* the main loop performs its next pending access
StepIrqSave ==
    /\ Running /\ pend # <<>> /\ Head(pend).k = "irq_save"
    /\ irq_save
    /\ pend' = Tail(pend)
    /\ UNCHANGED <<OUT, DIR, INREG, PINCFG, PMUX, cur, ret, handles, shut, undef, lvl>>

StepIrqRestore ==
    /\ Running /\ pend # <<>> /\ Head(pend).k = "irq_restore"
    /\ irq_restore
    /\ pend' = Tail(pend)
    /\ UNCHANGED <<OUT, DIR, INREG, PINCFG, PMUX, cur, ret, handles, shut, undef, lvl>>

StepWr ==
    /\ Running /\ pend # <<>> /\ Head(pend).k = "wr"
    /\ LET i == Head(pend)
       IN  /\ OUT' = [OUT EXCEPT ![i.grp] = StoreOUT(i.reg, @, i.bits)]
           /\ DIR' = [DIR EXCEPT ![i.grp] = StoreDIR(i.reg, @, i.bits)]
           /\ lvl' = LvlAfter(cur, i)
    /\ pend' = Tail(pend)
    /\ UNCHANGED <<INREG, PINCFG, PMUX, irq, cur, flag, ret, handles, shut, undef>>

StepCfg ==
    /\ Running /\ pend # <<>> /\ Head(pend).k = "cfg" /\ InRange(Head(pend))
    /\ LET i == Head(pend)
       IN  PINCFG' = [PINCFG EXCEPT ![i.grp][i.idx] = i.val]
    /\ pend' = Tail(pend)
    /\ UNCHANGED <<OUT, DIR, INREG, PMUX, irq, cur, flag, ret, handles, shut, undef, lvl>>

StepMux ==
    /\ Running /\ pend # <<>> /\ Head(pend).k = "mux" /\ InRange(Head(pend))
    /\ LET i == Head(pend)
       IN  PMUX' = [PMUX EXCEPT ![i.grp][i.idx] = i.val]
    /\ pend' = Tail(pend)
    /\ UNCHANGED <<OUT, DIR, INREG, PINCFG, irq, cur, flag, ret, handles, shut, undef, lvl>>

\* A store through an index outside the array: the behaviour is undefined.
\* The byte lands outside the array: on none of the configuration bytes the
\* model follows, or on any one of them. The model follows the run no
\* further.
StepOutOfRange ==
    /\ Running /\ pend # <<>> /\ Head(pend).k \in {"cfg", "mux"} /\ ~InRange(Head(pend))
    /\ LET i == Head(pend)
           near == {p % NumBits : p \in {q \in GoodPins : GPIO2PORT(q) = i.grp}}
       IN  \/ UNCHANGED <<OUT, DIR, PINCFG, PMUX>>
           \/ \E j \in near :
                 /\ PINCFG' = [PINCFG EXCEPT ![i.grp][j] = i.val]
                 /\ UNCHANGED <<OUT, DIR, PMUX>>
           \/ \E j \in near :
                 /\ PMUX' = [PMUX EXCEPT ![i.grp][j \div 2] = i.val]
                 /\ UNCHANGED <<OUT, DIR, PINCFG>>
    /\ undef' = TRUE
    /\ pend' = <<>>
    /\ UNCHANGED <<INREG, irq, cur, flag, ret, handles, shut, lvl>>

StepRd ==
    /\ Running /\ pend # <<>> /\ Head(pend).k = "rd"
    /\ LET i == Head(pend)
       IN  ret' = IntRet(IF INREG[i.grp] \cap i.bits # {} THEN 1 ELSE 0)
    /\ pend' = Tail(pend)
    /\ UNCHANGED <<OUT, DIR, INREG, PINCFG, PMUX, irq, cur, flag, handles, shut, undef, lvl>>

StepRet ==
    /\ Running /\ pend # <<>> /\ Head(pend).k = "ret"
    /\ LET i == Head(pend)
           g == [kind |-> i.reg, regs |-> i.grp, bit |-> i.bits]
       IN  /\ handles' = handles \cup {g}
           /\ ret' = HandleRet(g)
    /\ pend' = Tail(pend)
    /\ UNCHANGED <<OUT, DIR, INREG, PINCFG, PMUX, irq, cur, flag, shut, undef, lvl>>

\* shutdown() does not return
StepShutdown ==
    /\ Running /\ pend # <<>> /\ Head(pend).k = "shutdown"
    /\ shut' = Head(pend).reg
    /\ pend' = <<>>
    /\ UNCHANGED <<OUT, DIR, INREG, PINCFG, PMUX, irq, cur, flag, ret, handles, undef, lvl>>

\* an interrupt handler runs to completion between two steps of the main
\* loop: it writes or toggles an output pin
Handler(op, g, val, code) ==
    /\ Running /\ irq
    /\ g.kind = "out"
    /\ Len(code) = 1 /\ code[1].k = "wr"
    /\ LET i == code[1]
           c == OnHandle(op, g, val, 0)
       IN  /\ OUT' = [OUT EXCEPT ![i.grp] = StoreOUT(i.reg, @, i.bits)]
           /\ lvl' = LvlAfter(c, i)
    /\ cur' = [cur EXCEPT !.pre = @ \/ pend # <<>>]
    /\ UNCHANGED <<DIR, INREG, PINCFG, PMUX, irq, pend, flag, ret, handles, shut, undef>>

Irq_gpio_out_write(g, val) ==
    Handler("gpio_out_write", g, val, gpio_out_write(g, val))

Irq_gpio_out_toggle_noirq(g) ==
    Handler("gpio_out_toggle_noirq", g, 0, gpio_out_toggle_noirq(g))

\* the caller may hold interrupts disabled around a call
Call_irq_disable ==
    /\ Idle /\ irq
    /\ irq' = FALSE
    /\ cur' = [NoCall EXCEPT !.op = "irq_disable"]
    /\ UNCHANGED <<OUT, DIR, INREG, PINCFG, PMUX, pend, flag, ret, handles, shut, undef, lvl>>

Call_irq_enable ==
    /\ Idle /\ ~irq
    /\ irq' = TRUE
    /\ cur' = [NoCall EXCEPT !.op = "irq_enable", !.irq0 = FALSE]
    /\ UNCHANGED <<OUT, DIR, INREG, PINCFG, PMUX, pend, flag, ret, handles, shut, undef, lvl>>

\* the level on an input pin changes
PinChange(pin) ==
    /\ Running
    /\ INREG' = [INREG EXCEPT ![GPIO2PORT(pin)] =
                    IF pin % NumBits \in @ THEN @ \ {pin % NumBits}
                    ELSE @ \cup {pin % NumBits}]
    /\ UNCHANGED <<OUT, DIR, PINCFG, PMUX, irq, cur, pend, flag, ret, handles, shut, undef, lvl>>

(***************************************************************************)
(* Pin input and output: the main loop calls the pin functions, interrupt  *)
(* handlers write and toggle output pins, the caller may disable           *)
(* interrupts.                                                             *)
(***************************************************************************)
Next ==
    \/ \E pin \in OutPins, val \in Vals : Call_gpio_out_setup(pin, val)
    \/ \E pin \in InPins, pull_up \in PullUps : Call_gpio_in_setup(pin, pull_up)
    \/ \E g \in handles, val \in Vals : Call_gpio_out_reset(g, val)
    \/ \E g \in handles, val \in Vals : Call_gpio_out_write(g, val)
    \/ \E g \in handles : Call_gpio_out_toggle(g)
    \/ \E g \in handles : Call_gpio_out_toggle_noirq(g)
    \/ \E g \in handles, pull_up \in PullUps : Call_gpio_in_reset(g, pull_up)
    \/ \E g \in handles : Call_gpio_in_read(g)
    \/ StepIrqSave
    \/ StepIrqRestore
    \/ StepWr
    \/ StepCfg
    \/ StepRd
    \/ StepRet
    \/ StepShutdown
    \/ \E g \in handles, val \in Vals : Irq_gpio_out_write(g, val)
    \/ \E g \in handles : Irq_gpio_out_toggle_noirq(g)
    \/ Call_irq_disable
    \/ Call_irq_enable

Spec ==
    Init /\ [][Next]_vars

(***************************************************************************)
(* Pin multiplexing and input configuration: gpio_peripheral with any      *)
(* argument, the input pin functions, and the levels on the pins changing. *)
(***************************************************************************)
NextMux ==
    \/ \E a \in PeriphArgs, ptype \in PTypes, pull_up \in PeriphPulls :
           Call_gpio_peripheral(a[1], a[2], ptype, pull_up)
    \/ StepCfg
    \/ StepMux
    \/ StepOutOfRange

SpecMux ==
    Init /\ [][NextMux]_vars

(***************************************************************************)
(* One pin through all its configurations: pin 31 routed to a peripheral,  *)
(* made an output, made an input and read while its level changes.         *)
(***************************************************************************)
OnePin == {31}

NextIn ==
    \/ \E pin \in OnePin, ptype \in PTypes, pull_up \in PeriphPulls :
           Call_gpio_peripheral(CharA, pin, ptype, pull_up)
    \/ \E pin \in OnePin, val \in Vals : Call_gpio_out_setup(pin, val)
    \/ \E pin \in OnePin, pull_up \in PullUps : Call_gpio_in_setup(pin, pull_up)
    \/ \E g \in handles, pull_up \in PullUps : Call_gpio_in_reset(g, pull_up)
    \/ \E g \in handles : Call_gpio_in_read(g)
    \/ StepIrqSave
    \/ StepIrqRestore
    \/ StepWr
    \/ StepCfg
    \/ StepMux
    \/ StepRd
    \/ StepRet
    \/ \E pin \in OnePin : PinChange(pin)

SpecIn ==
    Init /\ [][NextIn]_vars

(***************************************************************************)
(* Properties                                                              *)
(***************************************************************************)
SetupOps == {"gpio_out_setup", "gpio_in_setup"}
OutResetOps == {"gpio_out_setup", "gpio_out_reset"}
InResetOps == {"gpio_in_setup", "gpio_in_reset"}
ResetOps == OutResetOps \cup InResetOps
WriteToggleOps == {"gpio_out_write", "gpio_out_toggle", "gpio_out_toggle_noirq"}

Latch(p) == IF p % NumBits \in OUT[p \div NumBits] THEN 1 ELSE 0
Dir(p) == IF p % NumBits \in DIR[p \div NumBits] THEN 1 ELSE 0
CurPins == PinsOf(cur.grp, cur.bits)

\* the call in progress is a setup of a pin number beyond the last port
InvalidPin(c) == c.op \in SetupOps /\ c.pin \notin 0 .. (NUM_PORT * NumBits - 1)
ValidReset(c) == c.op \in ResetOps /\ ~InvalidPin(c)
ShutdownMsg(op) == IF op = "gpio_out_setup" THEN "Not an output pin" ELSE "Not an input pin"

\* a step of the main loop; a run of an interrupt handler
MainStep == pend' # pend
HandlerRan == pend' = pend /\ (OUT' # OUT \/ cur'.pre # cur.pre)

RegWrites(code) == Cardinality({n \in 1 .. Len(code) : code[n].k \in {"wr", "cfg"}})
Pending(k) == \E n \in 1 .. Len(pend) : pend[n].k = k
PendingReg(r) == \E n \in 1 .. Len(pend) : pend[n].reg = r

\* C1: a setup of a pin in 64..255 ends in shutdown with the function's
\* message, returns no handle, and from entry to shutdown changes no PORT
\* register, no interrupt state and no handle; a setup of a pin in 0..63
\* never shuts down and returns a handle.
C1_InvalidPinShutsDown ==
    /\ [](/\ (InvalidPin(cur) /\ pend = <<>>) => (shut = ShutdownMsg(cur.op) /\ ret.t = "none")
          /\ shut # "" => InvalidPin(cur)
          /\ (cur.op \in SetupOps /\ ~InvalidPin(cur) /\ pend = <<>>) =>
                 (ret.t = "handle" /\ ret.v \in handles))
    /\ [][(MainStep /\ InvalidPin(cur')) =>
             /\ UNCHANGED <<OUT, DIR, PINCFG, PMUX, irq, flag, handles>>
             /\ pend' = <<>> => shut' = ShutdownMsg(cur'.op)]_vars

C1_Witness ==
    /\ cur.op = "gpio_in_setup" /\ cur.pin = 255
    /\ shut = "Not an input pin"
    /\ OUT[0] = {30, 31}
    /\ PINCFG[1][31] = PORT_PINCFG_PULLEN

\* C2: every register access a call makes uses a port group in {0,1}, a
\* PINCFG index in 0..31 and a PMUX index in 0..15.
C2_AccessesInRange ==
    \A n \in 1 .. Len(pend) : InRange(pend[n])

\* C3: in gpio_out_reset and gpio_in_reset every register write is made
\* after irq_save and before irq_restore, with interrupts disabled, and no
\* interrupt handler runs between the first and the last write of the call.
WritesOf(op) == IF op \in OutResetOps THEN 3 ELSE 2
BetweenWrites ==
    ValidReset(cur) /\ RegWrites(pend) \in 1 .. (WritesOf(cur.op) - 1)

C3_ResetWritesAtomic ==
    /\ []((ValidReset(cur) /\ pend # <<>> /\ Head(pend).k \in {"wr", "cfg"}) =>
              (~irq /\ ~Pending("irq_save") /\ Pending("irq_restore")))
    /\ [][HandlerRan => ~BetweenWrites]_vars

C3_Witness ==
    /\ BetweenWrites /\ cur.op = "gpio_in_reset"
    /\ cur.irq0 /\ ~irq
    /\ \E g \in handles : g.kind = "out"

\* C4: gpio_out_write, gpio_out_toggle and gpio_out_toggle_noirq leave the
\* interrupt state alone and make one write to OUTSET, OUTCLR or OUTTGL; when
\* interrupt handlers wrote or toggled pins while the call was in progress,
\* every driven pin of the group has the level of the calls made on it, one
\* after the other.
C4_NoLostUpdate ==
    /\ cur.op \in WriteToggleOps =>
          /\ irq = cur.irq0
          /\ pend # <<>> => /\ Len(pend) = 1
                            /\ Head(pend).k = "wr"
                            /\ Head(pend).reg \in {"OUTSET", "OUTCLR", "OUTTGL"}
    /\ (cur.op \in WriteToggleOps /\ cur.pre /\ pend = <<>>) =>
          \A p \in GoodPins :
              (p \div NumBits = cur.grp /\ lvl[p] # -1) => Latch(p) = lvl[p]

C4_Witness ==
    /\ cur.op = "gpio_out_write" /\ cur.bits = {30} /\ cur.val = 0
    /\ cur.pre /\ pend = <<>>
    /\ lvl[30] = 0 /\ lvl[31] = 1
    /\ OUT[0] = {31}

\* C5: a pin driven by gpio_out_setup or gpio_out_reset is an output, and
\* after any sequence of writes, resets and toggles its latch bit is the
\* level of the last setup, reset or write (high for any nonzero val),
\* inverted once per toggle since.
C5_LatchMatchesModel ==
    \A p \in GoodPins :
        (lvl[p] # -1 /\ ~(cur.op \in OutResetOps /\ pend # <<>> /\ p \in CurPins)) =>
            (Dir(p) = 1 /\ Latch(p) = lvl[p])

C5_Witness ==
    /\ cur.op = "gpio_out_toggle" /\ cur.bits = {31} /\ pend = <<>>
    /\ lvl[31] = 0 /\ Latch(31) = 0 /\ Dir(31) = 1
    /\ lvl[30] = 1

\* C6: a handle names the group pin/32 and one bit, pin%32, and a call
\* through it changes the latch bit, direction bit and PINCFG entry of no
\* other pin, in either port group.
PinCalls == ResetOps \cup WriteToggleOps \cup {"gpio_in_read"}
OtherPinsKept(c) ==
    \A grp \in Groups, b \in BitIdx :
        (grp * NumBits + b \notin PinsOf(c.grp, c.bits)) =>
            /\ (b \in OUT'[grp]) = (b \in OUT[grp])
            /\ (b \in DIR'[grp]) = (b \in DIR[grp])
            /\ PINCFG'[grp][b] = PINCFG[grp][b]

C6_HandleOwnsOnePin ==
    /\ [](/\ \A g \in handles : g.regs \in Groups /\ g.bit \subseteq BitIdx
                                 /\ Cardinality(g.bit) = 1
          /\ (cur.op \in SetupOps /\ ret.t = "handle") =>
                 (ret.v.regs = cur.pin \div 32 /\ ret.v.bit = {cur.pin % 32}))
    /\ [][(MainStep /\ cur'.op \in PinCalls) => OtherPinsKept(cur')]_vars

C6_Witness ==
    /\ cur.op = "gpio_out_reset" /\ cur.grp = 0 /\ cur.bits = {31} /\ cur.val = 1
    /\ pend = <<>>
    /\ OUT[0] = {30, 31}
    /\ PINCFG[1][31] = PORT_PINCFG_PULLEN

\* C7: gpio_out_reset writes the latch, then DIRSET, then PINCFG; once its
\* DIRSET is done the pin is an output and its latch bit is (val != 0), and
\* the step that turns an input pin into an output finds the latch already
\* at (val != 0).
Want(c) == IF c.val # 0 THEN 1 ELSE 0
ValidOutReset(c) == c.op \in OutResetOps /\ ~InvalidPin(c)
PendingLatchWrite == PendingReg("OUTSET") \/ PendingReg("OUTCLR")

C7_LatchBeforeDirection ==
    /\ []((ValidOutReset(cur) /\ Pending("irq_restore")) =>
             /\ PendingLatchWrite => PendingReg("DIRSET")
             /\ PendingReg("DIRSET") => Pending("cfg")
             /\ ~PendingReg("DIRSET") =>
                    \A p \in CurPins : Dir(p) = 1 /\ Latch(p) = Want(cur))
    /\ [][(MainStep /\ ValidOutReset(cur) /\ \E p \in CurPins : Dir(p) = 0 /\ Dir(p)' = 1) =>
             \A p \in CurPins : Latch(p)' = Want(cur)]_vars

C7_Witness ==
    /\ cur.op = "gpio_out_setup" /\ cur.pin = 31 /\ cur.val = 2
    /\ Len(pend) = 3 /\ Head(pend).k = "cfg"
    /\ Dir(31) = 1 /\ Latch(31) = 1
    /\ ~\E g \in handles : g.kind = "out" /\ g.bit = {31}

\* C8: gpio_out_reset, gpio_in_reset and the setups of a valid pin return
\* with the interrupt state they were entered with, never enable interrupts
\* that were disabled on entry, and pair their irq_save with one irq_restore
\* of the saved flag.
C8_IrqStateRestored ==
    ValidReset(cur) =>
        /\ pend = <<>> => irq = cur.irq0
        /\ ~cur.irq0 => ~irq
        /\ Cardinality({n \in 1 .. Len(pend) : pend[n].k = "irq_restore"}) <= 1
        /\ Pending("irq_save") => (Pending("irq_restore") /\ irq = cur.irq0)
        /\ (~Pending("irq_save") /\ Pending("irq_restore")) => (~irq /\ flag = cur.irq0)
        /\ (~Pending("irq_save") /\ ~Pending("irq_restore")) => irq = cur.irq0

C8_Witness ==
    /\ cur.op = "gpio_in_reset" /\ cur.bits = {31} /\ cur.pull = 1
    /\ pend = <<>>
    /\ ~cur.irq0 /\ ~irq
    /\ PINCFG[1][31] = PORT_PINCFG_PULLEN

\* C9: gpio_peripheral with bit in 0..31 stores ptype-'A' in the nibble of
\* that pin (low nibble of PMUX[bit/2] for an even bit, high nibble for an
\* odd bit), keeps the other nibble of the byte and every other PMUX byte,
\* and sets PINCFG[bit] to PMUXEN plus PULLEN iff pull_up != 0; with ptype 0
\* it writes no PMUX byte and leaves PMUXEN clear.  Bank 'A' is group 0,
\* any other bank group 1.
ValidPeriph(c) == c.op = "gpio_peripheral" /\ c.pin \in BitIdx
BankGroup(c) == IF c.bank = CharA THEN 0 ELSE 1
Nibble(byte, high) == IF high THEN byte \div 16 ELSE byte % 16
PeriphFrame(c) ==
    LET grp == BankGroup(c)
        odd == c.pin % 2 = 1
    IN  /\ \A h \in Groups, j \in 0 .. (NumPmux - 1) :
               (<<h, j>> # <<grp, c.pin \div 2>>) => PMUX'[h][j] = PMUX[h][j]
        /\ Nibble(PMUX'[grp][c.pin \div 2], ~odd) = Nibble(PMUX[grp][c.pin \div 2], ~odd)
        /\ \A h \in Groups, b \in BitIdx :
               (<<h, b>> # <<grp, c.pin>>) => PINCFG'[h][b] = PINCFG[h][b]
        /\ c.val = 0 => PMUX' = PMUX
        /\ UNCHANGED <<OUT, DIR>>

C9_PeripheralMux ==
    /\ []((ValidPeriph(cur) /\ pend = <<>>) =>
             /\ cur.val # 0 =>
                    Nibble(PMUX[BankGroup(cur)][cur.pin \div 2], cur.pin % 2 = 1)
                        = cur.val - CharA
             /\ PINCFG[BankGroup(cur)][cur.pin] =
                    (IF cur.val # 0 THEN PORT_PINCFG_PMUXEN ELSE 0)
                    + (IF cur.pull # 0 THEN PORT_PINCFG_PULLEN ELSE 0))
    /\ [][(MainStep /\ ValidPeriph(cur')) => PeriphFrame(cur')]_vars

C9_Witness ==
    /\ cur.op = "gpio_peripheral" /\ cur.bank = CharA /\ cur.pin = 31
    /\ cur.val = CharA + 1 /\ cur.pull = 1
    /\ pend = <<>>
    /\ PMUX[0][15] = 16 + 7
    /\ PINCFG[0][31] = PORT_PINCFG_PMUXEN + PORT_PINCFG_PULLEN
    /\ PMUX[1][15] = 7 * 16

\* C10: after gpio_in_setup or gpio_in_reset of a valid pin, whatever the
\* pin was before, its direction bit is clear and its PINCFG entry has PMUXEN
\* clear and PULLEN set iff pull_up > 0; the call leaves the output latch
\* alone; gpio_in_read returns 1 when the pin's IN bit is set and 0
\* otherwise, and writes no register.
ValidInReset(c) == c.op \in InResetOps /\ ~InvalidPin(c)

C10_InputConfigured ==
    /\ []((ValidInReset(cur) /\ pend = <<>>) =>
             \A b \in cur.bits :
                 /\ b \notin DIR[cur.grp]
                 /\ BitOf(PINCFG[cur.grp][b], 0) = 0
                 /\ BitOf(PINCFG[cur.grp][b], 2) = (IF cur.pull > 0 THEN 1 ELSE 0))
    /\ [][(MainStep /\ (ValidInReset(cur') \/ cur'.op = "gpio_in_read")) =>
             /\ OUT' = OUT
             /\ cur'.op = "gpio_in_read" =>
                    /\ UNCHANGED <<OUT, DIR, PINCFG, PMUX, irq>>
                    /\ pend' = <<>> =>
                           /\ ret'.t = "int"
                           /\ ret'.v = (IF cur.bits \cap INREG[cur.grp] # {} THEN 1 ELSE 0)]_vars

C10_Witness ==
    /\ cur.op = "gpio_in_reset" /\ cur.bits = {31} /\ cur.pull = -1
    /\ pend = <<>>
    /\ Latch(31) = 1 /\ Dir(31) = 0
    /\ PMUX[0][15] = 7 * 16
    /\ PINCFG[0][31] = 0
    /\ \E g \in handles : g.kind = "out"

====
